---- MODULE Spec2Model ----
(***************************************************************************)
(* A model of ABySS Consensus (src/Consensus/Consensus.cpp): contig         *)
(* registration (readContigs), pile-up accumulation (buildBaseQuality),     *)
(* the per-position vote (selectBase), Unknown-Base Repair (fixUnknown)     *)
(* and the acceptance decision (consensus).                                 *)
(*                                                                          *)
(* Characters are one-letter strings.  C++ containers are 0-based, TLA+     *)
(* sequences are 1-based: element x of a C++ string or vector is element    *)
(* x + 1 of the sequence that models it.  string::npos is modelled by -1    *)
(* (size_t arithmetic: 0 - 1 = npos).                                       *)
(***************************************************************************)
EXTENDS Integers, Sequences, FiniteSets

\* ------------------------------------------------------------------ bounds
\* Largest single counter of a table handed to selectBase on its own.
MaxCount == 5
\* Largest running total handed to selectBase on its own.
MaxSum == 1
\* Longest consensus handed to fixUnknown on its own.
MaxFixLen == 4

\* Contigs in the contig file, and the longest draft sequence.
MaxContigs == 2
MaxContigLen == 2
\* Read lines on standard input, placements per line, placements in all,
\* longest read.
MaxLines == 2
MaxAligns == 2
MaxPlacements == 2
MaxReadLen == 2
\* Largest contig start offset of a placement.
MaxStart == 1
\* Reads are written with the symbols of codes 0 .. MaxCode.
MaxCode == 1
\* Votes in a table handed to consensus on its own: a table of n positions
\* holds at most MaxVotes \div n votes.
MaxVotes == 10
MaxTableLen == 3

VARIABLES
    pc,          \* position of the program / of the function under study
    outputCS,    \* opt::outputCS (--cs / --nt)
    colourSpace, \* opt::colourSpace
    csToNt,      \* opt::csToNt
    g_contigs,   \* contig id -> [seq, counts]; ids are 1 .. count
    count,       \* contigs read by readContigs
    line,        \* the read line buildBaseQuality is piling up, or NoLine
    nLines,      \* read lines consumed
    nAligns,     \* placements parsed from the lines consumed
    outFile,     \* contig id -> sequence written by consensus
    fixed,       \* contigs whose consensus went through fixUnknown
    numIgnored,  \* consensus: contigs below the agreement threshold
    in,          \* arguments of the function under study
    res          \* its result

vars == <<pc, outputCS, colourSpace, csToNt, g_contigs, count, line, nLines,
          nAligns, outFile, fixed, numIgnored, in, res>>
progVars == <<outputCS, colourSpace, csToNt, g_contigs, count, line, nLines,
              nAligns, outFile, fixed, numIgnored>>

NoLine == [idx |-> -1]

\* The program's variables while a function is studied on its own.
ProgIdle ==
    /\ outputCS = FALSE /\ colourSpace = FALSE /\ csToNt = FALSE
    /\ g_contigs = <<>> /\ count = 0 /\ line = NoLine /\ nLines = 0
    /\ nAligns = 0
    /\ outFile = <<>> /\ fixed = {} /\ numIgnored = 0

\* ---------------------------------------------------------- base encoding
npos == -1

Codes == 0 .. 3
Nucleotides == {"A", "C", "G", "T"}
Digits == {"0", "1", "2", "3"}
LowerLetters == {"a", "c", "g", "t", "n"}

\* Common/Sequence: the dense code of a nucleotide or of a colour digit.
baseToCode(c) ==
    CASE c \in {"A", "a", "0"} -> 0
      [] c \in {"C", "c", "1"} -> 1
      [] c \in {"G", "g", "2"} -> 2
      [] c \in {"T", "t", "3"} -> 3

\* Common/Sequence: the nucleotide of a code, always upper case.
codeToBase(code) == <<"A", "C", "G", "T">>[code + 1]

\* The colour-space transition table: digit d takes base b to cstont[b][d].
cstont ==
    << <<0, 1, 2, 3>>,
       <<1, 0, 3, 2>>,
       <<2, 3, 0, 1>>,
       <<3, 2, 1, 0>> >>

\* colourToNucleotideSpace(char anchor, char cs): one decoding step.
colourToNucleotideSpace(anchor, cs) ==
    codeToBase(cstont[baseToCode(anchor) + 1][baseToCode(cs) + 1])

islower(c) == c \in LowerLetters

tolower(c) ==
    CASE c = "A" -> "a"
      [] c = "C" -> "c"
      [] c = "G" -> "g"
      [] c = "T" -> "t"
      [] c = "N" -> "n"
      [] OTHER -> c

\* string::find_first_of / find_last_of: a 0-based index, or npos.
find_first_of(s, set) ==
    IF \E i \in 1 .. Len(s) : s[i] \in set
    THEN (CHOOSE i \in 1 .. Len(s) :
              s[i] \in set /\ \A j \in 1 .. i - 1 : s[j] \notin set) - 1
    ELSE npos

find_last_of(s, set) ==
    IF \E i \in 1 .. Len(s) : s[i] \in set
    THEN (CHOOSE i \in 1 .. Len(s) :
              s[i] \in set /\ \A j \in i + 1 .. Len(s) : s[j] \notin set) - 1
    ELSE npos

\* string::substr(pos, n), for pos <= size().
substr(s, pos, n) ==
    SubSeq(s, pos + 1, IF pos + n > Len(s) THEN Len(s) ELSE pos + n)

\* string::replace(index, 1, 1, c).
replace1(s, index, c) == [s EXCEPT ![index + 1] = c]

\* -------------------------------------------------------------- selectBase
\* One turn of the loop of selectBase over symbol x; st is
\* (bestBase, bestCount, secondCount).
SelectStepTieLast(st, cnt, x) ==
    IF cnt[x] >= st.bestCount
    THEN [bestBase |-> x, secondCount |-> st.bestCount, bestCount |-> cnt[x]]
    ELSE st

SelectStep(st, cnt, x) ==
    IF cnt[x] > st.bestCount
    THEN [bestBase |-> x, secondCount |-> st.bestCount, bestCount |-> cnt[x]]
    ELSE st

SelectScan(cnt) ==
    LET st0 == [bestBase |-> -1, bestCount |-> 0, secondCount |-> 0]
        st1 == SelectStep(st0, cnt, 0)
        st2 == SelectStep(st1, cnt, 1)
        st3 == SelectStep(st2, cnt, 2)
    IN  SelectStep(st3, cnt, 3)

\* selectBase(count, sumBest, sumSecond): the called base and the two running
\* totals after the call.
selectBase(cnt, sumBest, sumSecond) ==
    LET st == SelectScan(cnt)
    IN  [base      |-> IF st.bestBase = -1 THEN "N" ELSE codeToBase(st.bestBase),
         sumBest   |-> sumBest + st.bestCount,
         sumSecond |-> sumSecond + st.secondCount]

\* -------------------------------------------------------------- fixUnknown
RECURSIVE FixLoop(_, _, _)
\* The while loop of fixUnknown: index is the first 'N' of ntSeq, or npos.
FixLoop(ntSeq, csSeq, index) ==
    IF index = npos
    THEN ntSeq
    ELSE LET base == colourToNucleotideSpace(ntSeq[index], csSeq[index])
             next == replace1(ntSeq, index, base)
         IN  FixLoop(next, csSeq, find_first_of(next, {"N"}))

\* fixUnknown(ntSeq, csSeq): the value of ntSeq on return.
fixUnknown(ntSeq, csSeq) ==
    LET index  == find_first_of(ntSeq, {"N"})
        rindex == find_last_of(ntSeq, {"N"})
        first  == find_first_of(ntSeq, Nucleotides)
        last   == find_last_of(ntSeq, Nucleotides)
        trim   == index = 0 \/ rindex = Len(ntSeq) - 1
        nt1    == IF trim THEN substr(ntSeq, first, last - first + 1) ELSE ntSeq
        index1 == IF trim THEN find_first_of(nt1, {"N"}) ELSE index
    IN  FixLoop(nt1, csSeq, index1)

\* ------------------------------------------- the functions on their own
CountTables == [Codes -> 0 .. MaxCount]

RECURSIVE SeqsOf(_, _)
\* All sequences of length n over set S.
SeqsOf(S, n) ==
    IF n = 0 THEN {<<>>}
    ELSE {Append(s, c) : s \in SeqsOf(S, n - 1), c \in S}

SeqsUpTo(S, lo, hi) == UNION {SeqsOf(S, n) : n \in lo .. hi}

\* ------------------------------------------------------------- readContigs
isdigit(c) == c \in Digits

ZeroCount == [x \in Codes |-> 0]
\* BaseCounts(n): a vector of n BaseCount, each constructed with four zeros.
BaseCounts(n) == [i \in 1 .. n |-> ZeroCount]

\* The draft sequences of the contig file: nucleotide drafts, upper or lower
\* case, and colour-space drafts.
DraftLetters == {"A"}
DraftDigits == {"0"}
DraftSeqs ==
    SeqsUpTo(DraftLetters, 1, MaxContigLen) \cup SeqsUpTo(DraftDigits, 1, MaxContigLen)

\* numBases of readContigs, from opt::csToNt as it is when the record is read.
numBases(seq) == IF csToNt THEN Len(seq) + 1 ELSE Len(seq)

\* One turn of the loop of readContigs: a record of the contig file.
ReadContig ==
    /\ pc = "readContigs"
    /\ count < MaxContigs
    /\ \E seq \in DraftSeqs :
         LET cs == isdigit(seq[1])
             contig == [seq    |-> seq,
                        counts |-> BaseCounts(numBases(seq))]
         IN  /\ g_contigs' = Append(g_contigs, contig)
             /\ count' = count + 1
             /\ IF count = 0
                THEN \* Detect colour-space contigs.
                     /\ colourSpace' = cs
                     /\ IF ~outputCS
                        THEN csToNt' = cs /\ pc' = pc
                        ELSE /\ csToNt' = csToNt
                             /\ pc' = IF ~cs THEN "exit" ELSE pc
                ELSE /\ UNCHANGED <<colourSpace, csToNt>>
                     /\ pc' = IF colourSpace = cs THEN pc ELSE "aborted"
    /\ UNCHANGED <<outputCS, line, nLines, nAligns, outFile, fixed, numIgnored,
                   in, res>>

\* The end of the contig file: assert(count > 0), then main calls
\* buildBaseQuality, which starts by clearing opt::colourSpace under csToNt.
EndContigs ==
    /\ pc = "readContigs"
    /\ IF count = 0
       THEN pc' = "aborted" /\ UNCHANGED colourSpace
       ELSE /\ pc' = "build"
            /\ colourSpace' = IF csToNt THEN FALSE ELSE colourSpace
    /\ UNCHANGED <<outputCS, csToNt, g_contigs, count, line, nLines, nAligns,
                   outFile, fixed, numIgnored, in, res>>

\* --------------------------------------------------------- buildBaseQuality
ReadLetters == {codeToBase(c) : c \in 0 .. MaxCode}
ReadDigits == {<<"0", "1", "2", "3">>[c + 1] : c \in 0 .. MaxCode}

\* colourToNucleotideSpace(anchor, seq): the anchor, then one decoded base
\* per colour digit.
RECURSIVE colourToNucleotideSeq(_, _)
colourToNucleotideSeq(anchor, seq) ==
    IF seq = <<>> THEN <<anchor>>
    ELSE <<anchor>> \o colourToNucleotideSeq(
             colourToNucleotideSpace(anchor, Head(seq)), Tail(seq))

\* The placements KAligner can write for a read of rl symbols.
Placements(rl) ==
    {[contig |-> c, contig_start_pos |-> cp, read_start_pos |-> rp,
      align_length |-> al, read_length |-> rl, isRC |-> rc] :
        c \in 1 .. MaxContigs, cp \in 0 .. MaxStart,
        rp \in 0 .. rl - 1, al \in 1 .. rl, rc \in BOOLEAN}

WellFormed(rl) == {a \in Placements(rl) : a.read_start_pos + a.align_length <= rl}

AlignmentVectors(rl) == SeqsUpTo(WellFormed(rl), 0, MaxAligns)

\* Alignment::flipQuery: the placement seen from the other strand.
flipQuery(a) ==
    [a EXCEPT !.read_start_pos = a.read_length - (a.read_start_pos + a.align_length),
              !.isRC = ~a.isRC]

\* readAlignment: the sequence of the line after parsing.
readAlignment(anchor, seq, alignments) ==
    IF alignments # <<>> /\ csToNt /\ \A i \in 1 .. Len(seq) : seq[i] \in Digits
    THEN colourToNucleotideSeq(anchor, seq)
    ELSE seq

\* The check of buildBaseQuality under csToNt: some placement of the read
\* starts at read location 0.
goodUnchecked(alignments) == TRUE

good(alignments) ==
    \E i \in 1 .. Len(alignments) : alignments[i].read_start_pos = 0

\* One line of standard input: parse it, and under csToNt skip it when none
\* of its placements starts at read location 0.
ReadLine ==
    /\ pc = "build"
    /\ line = NoLine
    /\ nLines < MaxLines
    /\ \E raw \in SeqsUpTo(IF colourSpace \/ csToNt THEN ReadDigits ELSE ReadLetters,
                           1, MaxReadLen) :
         \E anchor \in (IF colourSpace \/ csToNt THEN ReadLetters ELSE {"?"}) :
            \E alignments \in AlignmentVectors(Len(raw)) :
               /\ nAligns + Len(alignments) <= MaxPlacements
               /\ nAligns' = nAligns + Len(alignments)
               /\ IF (csToNt /\ ~good(alignments)) \/ alignments = <<>>
                  THEN line' = NoLine /\ nLines' = nLines + 1
                  ELSE /\ line' = [seq        |-> readAlignment(anchor, raw, alignments),
                                   alignments |-> alignments,
                                   idx        |-> 0]
                       /\ nLines' = nLines
    /\ UNCHANGED <<pc, outputCS, colourSpace, csToNt, g_contigs, count, outFile,
                   fixed, numIgnored, in, res>>

\* read_min and read_max of placement a (already flipped when reverse
\* complement) against a table of size positions.
ReadMin(a, size) ==
    IF ~csToNt
    THEN (IF a.read_start_pos - a.contig_start_pos > 0
          THEN a.read_start_pos - a.contig_start_pos ELSE 0)
    ELSE a.read_start_pos

ReadMaxUnclipped(a, size) ==
    IF ~csToNt THEN a.read_length ELSE a.read_start_pos + a.align_length + 1

ReadMax(a, size) ==
    IF ~csToNt
    THEN (IF a.read_start_pos + size - a.contig_start_pos < a.read_length
          THEN a.read_start_pos + size - a.contig_start_pos ELSE a.read_length)
    ELSE a.read_start_pos + a.align_length + 1

\* unsigned loc = a.contig_start_pos - a.read_start_pos + x
Loc(a, x) == a.contig_start_pos - a.read_start_pos + x

\* The assertions before the pile-up loop.
AlignmentMathRight(a, size, seqLen) ==
    /\ size >= a.contig_start_pos - a.read_start_pos + ReadMax(a, size) - 1
    /\ ReadMax(a, size) <= seqLen
    /\ ReadMin(a, size) >= 0

\* The read indices the loop piles up before it ends or assert(loc < size)
\* fails: loc grows with x.
PiledIndices(a, size) ==
    {x \in ReadMin(a, size) .. ReadMax(a, size) - 1 :
        Loc(a, x) >= 0 /\ Loc(a, x) < size}

LoopAborts(a, size) ==
    \E x \in ReadMin(a, size) .. ReadMax(a, size) - 1 :
        Loc(a, x) < 0 \/ Loc(a, x) >= size

\* The codes s[x] can hold.  A forward placement reads the read itself.  A
\* reverse-complement placement reads s = reverseComplement(seq).c_str(), the
\* buffer of a temporary destroyed at the end of that statement: any symbol,
\* here the one the placement is meant to read when it is T, or A.
DanglingCodes == {baseToCode("A"), baseToCode("T")}

BaseChoices(a0, seq, X) ==
    IF a0.isRC
    THEN [X -> DanglingCodes]
    ELSE {[x \in X |-> baseToCode(seq[x + 1])]}

\* countsVec[loc].count[base]++ for every piled index.
PileUp(counts, a, X, base) ==
    [i \in 1 .. Len(counts) |->
        IF \E x \in X : Loc(a, x) = i - 1
        THEN LET x == CHOOSE x \in X : Loc(a, x) = i - 1
             IN  [counts[i] EXCEPT ![base[x]] = @ + 1]
        ELSE counts[i]]

\* One turn of the loop over the placements of the line.
Pile ==
    /\ pc = "build"
    /\ line # NoLine
    /\ LET a0   == line.alignments[line.idx + 1]
           a    == IF a0.isRC THEN flipQuery(a0) ELSE a0
           last == line.idx + 1 = Len(line.alignments)
           next == IF last THEN NoLine ELSE [line EXCEPT !.idx = @ + 1]
       IN  IF a.contig > count
           THEN \* g_contigs.find(a.contig) == g_contigs.end()
                /\ line' = next
                /\ nLines' = IF last THEN nLines + 1 ELSE nLines
                /\ UNCHANGED <<pc, g_contigs>>
           ELSE LET countsVec == g_contigs[a.contig].counts
                    size == Len(countsVec)
                    X    == PiledIndices(a, size)
                IN  IF ~AlignmentMathRight(a, size, Len(line.seq))
                    THEN pc' = "aborted" /\ UNCHANGED <<g_contigs, line, nLines>>
                    ELSE \E base \in BaseChoices(a0, line.seq, X) :
                           /\ g_contigs' = [g_contigs EXCEPT ![a.contig].counts =
                                               PileUp(countsVec, a, X, base)]
                           /\ IF LoopAborts(a, size)
                              THEN pc' = "aborted" /\ UNCHANGED <<line, nLines>>
                              ELSE /\ pc' = pc
                                   /\ line' = next
                                   /\ nLines' = IF last THEN nLines + 1 ELSE nLines
    /\ UNCHANGED <<outputCS, colourSpace, csToNt, count, nAligns, outFile, fixed,
                   numIgnored, in, res>>

\* getline fails: buildBaseQuality returns and main calls consensus.
EndInput ==
    /\ pc = "build"
    /\ line = NoLine
    /\ pc' = "consensus"
    /\ UNCHANGED progVars
    /\ UNCHANGED <<in, res>>

\* ---------------------------------------------------------------- consensus
\* contig.seq[x]: the character at x, the terminating NUL at x = length().
SeqAt(seq, x) == IF x < Len(seq) THEN seq[x + 1] ELSE "NUL"

RECURSIVE CallBases(_, _, _)
\* The loop of consensus over the positions of one contig, from position x;
\* acc is (outSeq, sumBest, sumSecond), all three fresh for each contig.
CallBases(contig, x, acc) ==
    IF x = Len(contig.counts)
    THEN acc
    ELSE LET r == selectBase(contig.counts[x + 1], acc.sumBest, acc.sumSecond)
             c == IF islower(SeqAt(contig.seq, x)) THEN tolower(r.base) ELSE r.base
         IN  CallBases(contig, x + 1,
                       [outSeq    |-> Append(acc.outSeq, c),
                        sumBest   |-> r.sumBest,
                        sumSecond |-> r.sumSecond])

\* A float has a 24-bit significand: a quotient in [1/2, 1] is a multiple of
\* 2^-24.
FloatScale == 2 ^ 24

\* sumBest / (float)(sumBest + sumSecond), as the number of 2^-24 units of the
\* float nearest to a / b (ties to even).  sumBest >= sumSecond, so that the
\* quotient lies in [1/2, 1].
FloatQuotient(a, b) ==
    LET q == (a * FloatScale) \div b
        r == (a * FloatScale) % b
    IN  IF 2 * r > b \/ (2 * r = b /\ q % 2 = 1) THEN q + 1 ELSE q

\* percentAgreement < .9: the float against the double nearest to 0.9, which
\* lies strictly between 15099494 and 15099495 units of 2^-24, as 9/10 does.
LessThanPoint9(m) == 10 * m < 9 * FloatScale

BelowAgreement(sumBest, sumSecond) ==
    \/ sumBest + sumSecond = 0
    \/ LessThanPoint9(FloatQuotient(sumBest, sumBest + sumSecond))

\* Whether the branch that calls outFile.WriteSequence is taken.
WritesRetaining(determined, below) == determined /\ (~below \/ csToNt)

Writes(determined, below) == determined /\ ~below

\* What consensus does with one contig.
CallContig(contig) ==
    LET acc   == CallBases(contig, 0, [outSeq |-> <<>>, sumBest |-> 0, sumSecond |-> 0])
        determined == find_first_of(acc.outSeq, Nucleotides) # npos
        below == BelowAgreement(acc.sumBest, acc.sumSecond)
        write == Writes(determined, below)
    IN  [outString |-> IF write /\ csToNt
                       THEN fixUnknown(acc.outSeq, contig.seq) ELSE acc.outSeq,
         sumBest   |-> acc.sumBest,
         sumSecond |-> acc.sumSecond,
         ignored   |-> determined /\ below,
         written   |-> write,
         repaired  |-> write /\ csToNt]

\* consensus: the loop over g_contigs.
Consensus ==
    /\ pc = "consensus"
    /\ LET ids == 1 .. count
           r   == [id \in ids |-> CallContig(g_contigs[id])]
       IN  /\ outFile' = [id \in {i \in ids : r[i].written} |-> r[id].outString]
           /\ fixed' = {id \in ids : r[id].repaired}
           /\ numIgnored' = Cardinality({id \in ids : r[id].ignored})
    /\ pc' = "done"
    /\ UNCHANGED <<outputCS, colourSpace, csToNt, g_contigs, count, line, nLines,
                   nAligns, in, res>>

\* ------------------------------------------------------------- the program
Init ==
    /\ pc = "readContigs"
    /\ outputCS \in BOOLEAN
    /\ colourSpace = FALSE /\ csToNt = FALSE
    /\ g_contigs = <<>> /\ count = 0 /\ line = NoLine /\ nLines = 0
    /\ nAligns = 0
    /\ outFile = <<>> /\ fixed = {} /\ numIgnored = 0
    /\ in = <<>> /\ res = <<>>

Next == ReadContig \/ EndContigs \/ ReadLine \/ Pile \/ EndInput \/ Consensus

Spec == Init /\ [][Next]_vars

\* --------------------------------------------------- consensus on its own
Sum(c) == c[0] + c[1] + c[2] + c[3]

\* The tables of one position holding at most d votes.
PosVotes(d) == {c \in [Codes -> 0 .. d] : Sum(c) <= d}

RECURSIVE TablesOf(_, _)
\* The tables of n positions holding at most d votes in all.
TablesOf(n, d) ==
    IF n = 0 THEN {<<>>}
    ELSE UNION {{<<c>> \o t : t \in TablesOf(n - 1, d - Sum(c))} : c \in PosVotes(d)}

ConsLetters == {"A", "c"}
ConsDigits == {"0", "1"}

\* The state when main calls consensus: the run mode, and a contig with any
\* table accumulation can have left it, alone or registered second.  In
\* colour-space-to-nucleotide mode readContigs gave the first contig a table
\* as long as its draft and the second one a table one longer.
ConsInit ==
    /\ pc = "consensus"
    /\ \E mode \in {"nt", "csToNt", "cs"} :
         /\ outputCS = (mode = "cs")
         /\ colourSpace = (mode = "cs")
         /\ csToNt = (mode = "csToNt")
         /\ \E second \in BOOLEAN :
              \E n \in 1 .. MaxTableLen :
                 LET len == IF mode = "csToNt" /\ second THEN n - 1 ELSE n
                     plain == [seq    |-> IF mode = "nt" THEN <<"A">> ELSE <<"0">>,
                               counts |-> BaseCounts(1)]
                 IN  /\ len >= 1
                     /\ \E seq \in SeqsOf(IF mode = "nt" THEN ConsLetters ELSE ConsDigits, len) :
                          \E counts \in TablesOf(n, MaxVotes \div n) :
                             g_contigs = IF second
                                         THEN <<plain, [seq |-> seq, counts |-> counts]>>
                                         ELSE <<[seq |-> seq, counts |-> counts]>>
                     /\ count = IF second THEN 2 ELSE 1
    /\ line = NoLine /\ nLines = 0 /\ nAligns = 0
    /\ outFile = <<>> /\ fixed = {} /\ numIgnored = 0
    /\ in = <<>> /\ res = <<>>

SpecConsensus == ConsInit /\ [][Consensus]_vars

\* selectBase on any table and any running totals.
SelectInit ==
    /\ pc = "select"
    /\ in \in {[count |-> c, sumBest |-> b, sumSecond |-> s] :
                  c \in CountTables, b \in 0 .. MaxSum, s \in 0 .. MaxSum}
    /\ res = <<>>
    /\ ProgIdle

SelectCall ==
    /\ pc = "select"
    /\ res' = selectBase(in.count, in.sumBest, in.sumSecond)
    /\ pc' = "selected"
    /\ UNCHANGED <<in, progVars>>

SpecSelect == SelectInit /\ [][SelectCall]_vars

\* fixUnknown on any consensus with a determined base (consensus calls it
\* under find_first_of("ACGT") != npos) and the colour-space draft it was
\* called from: the table is one longer than the draft, or as long.
FixInit ==
    /\ pc = "fix"
    /\ \E n \in 1 .. MaxFixLen :
         \E nt \in SeqsOf(Nucleotides \cup {"N"}, n) :
            \E m \in {k \in {n - 1, n} : k >= 1} :
               \E cs \in SeqsOf(Digits, m) :
                  /\ \E i \in 1 .. n : nt[i] \in Nucleotides
                  /\ in = [ntSeq |-> nt, csSeq |-> cs]
    /\ res = <<>>
    /\ ProgIdle

FixCall ==
    /\ pc = "fix"
    /\ res' = fixUnknown(in.ntSeq, in.csSeq)
    /\ pc' = "fixed"
    /\ UNCHANGED <<in, progVars>>

SpecFix == FixInit /\ [][FixCall]_vars

\* ------------------------------------------ accumulation in any order
\* The lines standard input can hold, each with one placement.
Lines(cs) ==
    UNION {{[anchor |-> an, raw |-> raw, alignments |-> <<a>>] :
               an \in (IF cs THEN {"A"} ELSE {"?"}),
               a \in WellFormed(Len(raw))} :
           raw \in SeqsUpTo(IF cs THEN ReadDigits ELSE ReadLetters, 1, MaxReadLen)}

\* The state when main calls buildBaseQuality on MaxContigs contigs with
\* drafts of MaxContigLen symbols: in is the content of standard input, as
\* MaxLines lines, and res the lines not consumed yet.
OrderInit ==
    /\ pc = "build"
    /\ \E mode \in {"nt", "csToNt", "cs"} :
         /\ outputCS = (mode = "cs")
         /\ colourSpace = (mode = "cs")
         /\ csToNt = (mode = "csToNt")
         /\ g_contigs =
               [id \in 1 .. MaxContigs |->
                   [seq    |-> [x \in 1 .. MaxContigLen |->
                                   IF mode = "nt" THEN "A" ELSE "0"],
                    counts |-> BaseCounts(IF mode = "csToNt" /\ id > 1
                                          THEN MaxContigLen + 1 ELSE MaxContigLen)]]
         /\ in \in SeqsOf(Lines(mode # "nt"), MaxLines)
    /\ res = 1 .. MaxLines
    /\ count = MaxContigs
    /\ line = NoLine /\ nLines = 0 /\ nAligns = 0
    /\ outFile = <<>> /\ fixed = {} /\ numIgnored = 0

\* One line of standard input, whichever the file holds next.
OrderReadLine ==
    /\ pc = "build"
    /\ line = NoLine
    /\ \E k \in res :
         /\ res' = res \ {k}
         /\ nAligns' = nAligns + Len(in[k].alignments)
         /\ IF csToNt /\ ~good(in[k].alignments)
            THEN line' = NoLine /\ nLines' = nLines + 1
            ELSE /\ line' = [seq        |-> readAlignment(in[k].anchor, in[k].raw,
                                                          in[k].alignments),
                             alignments |-> in[k].alignments,
                             idx        |-> 0]
                 /\ nLines' = nLines
    /\ UNCHANGED <<pc, outputCS, colourSpace, csToNt, g_contigs, count, outFile,
                   fixed, numIgnored, in>>

\* getline fails once every line is consumed.
OrderEnd ==
    /\ res = {}
    /\ EndInput

SpecOrder == OrderInit /\ [][OrderReadLine \/ Pile \/ OrderEnd]_vars

\* ------------------------------------------------ claims about selectBase
AllZero(c) == \A x \in Codes : c[x] = 0
MaxOf(c) == CHOOSE m \in {c[x] : x \in Codes} : \A x \in Codes : c[x] <= m
\* The earliest symbol, in the order A < C < G < T, holding the highest count.
Winner(c) == CHOOSE w \in Codes : c[w] = MaxOf(c) /\ \A y \in 0 .. w - 1 : c[y] < MaxOf(c)
\* The highest count among the three symbols other than the winner.
RunnerUp(c) ==
    LET others == {c[x] : x \in Codes \ {Winner(c)}}
    IN  CHOOSE m \in others : \A v \in others : v <= m

\* C1: selectBase returns 'N' exactly when the four counters are all 0, and
\* then adds 0 to both running totals; otherwise it returns the symbol with
\* the highest count, the earliest one in the order A < C < G < T on a tie,
\* and adds that highest count to the running best total.
C1_SelectBaseWinner ==
    pc = "selected" =>
        /\ (res.base = "N") <=> AllZero(in.count)
        /\ AllZero(in.count) =>
              res.sumBest = in.sumBest /\ res.sumSecond = in.sumSecond
        /\ ~AllZero(in.count) =>
              /\ res.base = codeToBase(Winner(in.count))
              /\ res.sumBest = in.sumBest + MaxOf(in.count)

\* A call on a table whose highest count is shared by two symbols.
C1_Witness ==
    /\ pc = "selected"
    /\ in.count[0] = MaxCount /\ in.count[3] = MaxCount
    /\ res.base = "A"

\* C2: the value selectBase adds to the running second total is the second
\* highest of the four counters: the largest count among the three symbols
\* other than the winner (5 votes for A and 5 for T add 5 and 5).
C2_RunnerUpIsSecondHighest ==
    pc = "selected" => res.sumSecond = in.sumSecond + RunnerUp(in.count)

\* ----------------------------------------------- claims about readContigs
\* The run converts colour-space input to nucleotide-space output.
Converts == count > 0 /\ isdigit(g_contigs[1].seq[1]) /\ ~outputCS

\* C5: every registered contig, the first one read included, has a table of
\* sequence.length() positions, and of sequence.length() + 1 positions when
\* the run converts colour-space input to nucleotide-space output.
C5_TableLength ==
    \A id \in 1 .. count :
        Len(g_contigs[id].counts) =
            IF Converts THEN Len(g_contigs[id].seq) + 1 ELSE Len(g_contigs[id].seq)

\* ------------------------------------------ claims about buildBaseQuality
\* The placement the pile-up loop is about to take, as parsed and as used.
Cur == line.alignments[line.idx + 1]
CurA == IF Cur.isRC THEN flipQuery(Cur) ELSE Cur
Piling == pc = "build" /\ line # NoLine

\* The read indices a placement covers: the whole read in the modes that
\* keep the encoding, the aligned part and the extra trailing base under
\* csToNt.
Covered(a) ==
    IF ~csToNt THEN 0 .. a.read_length - 1
    ELSE a.read_start_pos .. a.read_start_pos + a.align_length

\* Some covered index has its destination offset outside the table.
Overhangs(a, size) == \E x \in Covered(a) : Loc(a, x) < 0 \/ Loc(a, x) >= size

\* The offsets of the table that covered indices are sent to.
Hits(a, size) == {Loc(a, x) : x \in Covered(a)} \cap (0 .. size - 1)

\* C6 as written: a placement with a destination offset outside the table
\* aborts the run, in either run mode.
C6_OutOfTableAborts ==
    [][(Piling /\ CurA.contig <= count
          /\ Overhangs(CurA, Len(g_contigs[CurA.contig].counts)))
       => pc' = "aborted"]_vars

\* C6 as amended: a counter is only ever incremented at offset
\* contigStart - alignStart + x of the placement's own contig, once per
\* covered index x.  Under csToNt a placement with an offset outside the
\* table aborts the run.  In the other modes the read is clipped to the
\* table: the indices sent outside are dropped, the others are counted, and
\* the run goes on.
C6_ClippedOrAborted ==
    [][(Piling /\ CurA.contig <= count) =>
          LET a    == CurA
              old  == g_contigs[a.contig].counts
              new  == g_contigs'[a.contig].counts
              size == Len(old)
          IN  /\ Len(new) = size
              /\ \A id \in 1 .. count : id # a.contig => g_contigs'[id] = g_contigs[id]
              /\ \A i \in 1 .. size :
                    /\ \A b \in Codes : new[i][b] >= old[i][b]
                    /\ Sum(new[i]) - Sum(old[i]) \in {0, 1}
                    /\ Sum(new[i]) # Sum(old[i]) => (i - 1) \in Hits(a, size)
                    /\ (pc' = "build" /\ (i - 1) \in Hits(a, size))
                          => Sum(new[i]) = Sum(old[i]) + 1
              /\ csToNt => (pc' = "aborted" <=> Overhangs(a, size))
              /\ ~csToNt => pc' = "build"]_vars

\* A read overhanging the table was piled up clipped, outside csToNt, and
\* the run goes on.
C6_Witness ==
    /\ pc = "build" /\ ~csToNt /\ nLines = 0
    /\ line # NoLine /\ line.idx = 1
    /\ LET a0 == line.alignments[1]
           a  == IF a0.isRC THEN flipQuery(a0) ELSE a0
       IN  /\ a.contig <= count
           /\ Overhangs(a, Len(g_contigs[a.contig].counts))
           /\ \E i \in 1 .. Len(g_contigs[a.contig].counts) :
                 Sum(g_contigs[a.contig].counts[i]) > 0

\* C7 as written: under csToNt a placement with a non-zero read-start offset
\* contributes nothing to any table, also when another placement of the
\* same read starts at offset 0 (stated of the runs that go on).
C7_OnlyOriginPlacementsCount ==
    [][(Piling /\ csToNt /\ Cur.read_start_pos # 0 /\ pc' = "build")
       => g_contigs' = g_contigs]_vars

\* C7 as amended: under csToNt a table only changes while a read with some
\* placement at read-start offset 0 is piled up, so that a read with no such
\* placement contributes nothing at all; and every placement of a read that
\* is piled up on a known contig is counted, its read-start offset zero or
\* not.
C7_ReadsWithOriginPlacementCount ==
    [][(pc = "build" /\ csToNt) =>
          /\ g_contigs' # g_contigs => line # NoLine /\ good(line.alignments)
          /\ line' # NoLine =>
                \E i \in 1 .. Len(line'.alignments) :
                    line'.alignments[i].read_start_pos = 0
          /\ (line # NoLine /\ CurA.contig <= count /\ pc' = "build")
                => g_contigs' # g_contigs]_vars

\* Under csToNt a placement with a non-zero read-start offset, of a read
\* that has another placement, was piled up and counted.
C7_Witness ==
    /\ pc = "build" /\ csToNt /\ nLines = 0
    /\ line # NoLine /\ line.idx = 1
    /\ line.alignments[1].read_start_pos # 0
    /\ line.alignments[1].contig <= count
    /\ \E i \in 1 .. Len(g_contigs[line.alignments[1].contig].counts) :
          Sum(g_contigs[line.alignments[1].contig].counts[i]) > 0

\* ------------------------------------------------- claims about consensus
\* A position is determined when its winning count is greater than 0.
HasDeterminedBase(contig) ==
    \E x \in 1 .. Len(contig.counts) : ~AllZero(contig.counts[x])

\* The running totals of one contig, over its own positions only.
Totals(contig) ==
    CallBases(contig, 0, [outSeq |-> <<>>, sumBest |-> 0, sumSecond |-> 0])

\* bestTotal / (bestTotal + secondTotal) against 0.90, in exact arithmetic.
AgreementAtLeast90(t) ==
    t.sumBest + t.sumSecond > 0 /\ 10 * t.sumBest >= 9 * (t.sumBest + t.sumSecond)
AgreementExactly90(t) ==
    t.sumBest + t.sumSecond > 0 /\ 10 * t.sumBest = 9 * (t.sumBest + t.sumSecond)
AgreementBelow90(t) ==
    t.sumBest + t.sumSecond > 0 /\ 10 * t.sumBest < 9 * (t.sumBest + t.sumSecond)

UpperCaseDraft(contig) == \A x \in 1 .. Len(contig.seq) : ~islower(contig.seq[x])

Written(id) == id \in DOMAIN outFile

\* C3: in every run mode a contig is written to the consensus output if and
\* only if it has a determined base, whatever the letter case of the draft
\* there, and its percent agreement over its own positions is at least 0.90.
C3_WrittenIffDeterminedAndAgreed ==
    pc = "done" =>
        \A id \in 1 .. count :
            Written(id) <=> /\ HasDeterminedBase(g_contigs[id])
                            /\ AgreementAtLeast90(Totals(g_contigs[id]))

\* C4: the threshold is inclusive: a contig with a determined base (here
\* with a draft in upper case) whose totals give exactly 0.90, such as 9 and
\* 1, is written to the consensus output.
C4_ThresholdInclusive ==
    pc = "done" =>
        \A id \in 1 .. count :
            /\ HasDeterminedBase(g_contigs[id])
            /\ UpperCaseDraft(g_contigs[id])
            /\ AgreementExactly90(Totals(g_contigs[id]))
            => Written(id)

\* C8 as written: below 0.90 with a determined base, the contig is retained
\* and repaired in colour-space-to-nucleotide mode, dropped in nucleotide mode.
C8_RetainedAndRepaired ==
    pc = "done" =>
        \A id \in 1 .. count :
            /\ HasDeterminedBase(g_contigs[id])
            /\ AgreementBelow90(Totals(g_contigs[id]))
            => IF csToNt THEN Written(id) /\ id \in fixed ELSE ~Written(id)

\* C8 as amended: below 0.90 with a determined base, the contig is not
\* written and not repaired, in colour-space-to-nucleotide mode as in the
\* other modes.
C8_BelowThresholdNeverWritten ==
    pc = "done" =>
        \A id \in 1 .. count :
            /\ HasDeterminedBase(g_contigs[id])
            /\ AgreementBelow90(Totals(g_contigs[id]))
            => ~Written(id) /\ id \notin fixed

\* consensus has run in colour-space-to-nucleotide mode on a contig with a
\* determined base and an agreement below 0.90.
C8_Witness ==
    /\ pc = "done"
    /\ csToNt
    /\ \E id \in 1 .. count :
          /\ HasDeterminedBase(g_contigs[id])
          /\ AgreementBelow90(Totals(g_contigs[id]))
          /\ ~Written(id)
          /\ numIgnored > 0

\* ------------------------------------------------ claims about fixUnknown
\* C9: fixUnknown on a consensus with a determined base ends with no
\* undetermined position: the leading and trailing undetermined runs are
\* removed, a determined position keeps its base, and an undetermined one
\* becomes the base decoded from the base before it in the result and the
\* digit of the colour-space draft that links its offset in the contig to
\* the offset before, also when leading positions were trimmed.
C9_RepairUsesDigitAtContigOffset ==
    pc = "fixed" =>
        LET nt == in.ntSeq
            k  == find_first_of(nt, Nucleotides)
            l  == find_last_of(nt, Nucleotides)
        IN  /\ Len(res) = l - k + 1
            /\ \A i \in 1 .. Len(res) :
                  /\ res[i] \in Nucleotides
                  /\ nt[k + i] # "N" => res[i] = nt[k + i]
                  /\ nt[k + i] = "N" =>
                        res[i] = colourToNucleotideSpace(res[i - 1],
                                                         in.csSeq[k + i - 1])

\* -------------------------------------- claims about the order of the lines
\* The symbol-wise complement, and the sequence a reverse-complement
\* placement is meant to vote with: reversed, and complemented outside
\* colour space.
complement(c) == IF c \in Nucleotides THEN codeToBase(3 - baseToCode(c)) ELSE c

reverseComplement(seq) ==
    [i \in 1 .. Len(seq) |->
        IF colourSpace THEN seq[Len(seq) + 1 - i] ELSE complement(seq[Len(seq) + 1 - i])]

\* The votes of line k: (contig, offset, symbol) for every piled index.
VotesOf(k) ==
    IF csToNt /\ ~good(in[k].alignments) THEN {}
    ELSE LET a0  == in[k].alignments[1]
             a   == IF a0.isRC THEN flipQuery(a0) ELSE a0
             seq == readAlignment(in[k].anchor, in[k].raw, in[k].alignments)
             s   == IF a0.isRC THEN reverseComplement(seq) ELSE seq
         IN  {<<a.contig, Loc(a, x), baseToCode(s[x + 1])>> :
                 x \in PiledIndices(a, Len(g_contigs[a.contig].counts))}

Tally(id, loc, b) == Cardinality({k \in 1 .. MaxLines : <<id, loc, b>> \in VotesOf(k)})

\* C10: the tables a run without abort ends with depend on the set of lines
\* alone, not on the order they were read in: every counter holds the number
\* of lines voting for its symbol at its offset.
C10_TablesAreTheTallyOfTheLines ==
    pc = "consensus" =>
        \A id \in 1 .. count :
           \A i \in 1 .. Len(g_contigs[id].counts) :
              \A b \in Codes : g_contigs[id].counts[i][b] = Tally(id, i - 1, b)

====
